---- MODULE Spec2Model ----
(***************************************************************************)
(* The caching middleware of caching.py as a state machine.                *)
(*                                                                         *)
(* State: the cache directory of the disk backend (files with their body   *)
(* and their extended attributes, directories), the middleware's self.req  *)
(* attribute, the backend chosen by filter_factory, and the outcome of the *)
(* last __call__.  One action per branch of __call__; every action is the  *)
(* whole handler for one request.  The downstream WSGI application and the *)
(* filesystem's I/O errors are inputs drawn by the actions.                *)
(***************************************************************************)
EXTENDS Integers, Sequences, FiniteSets, TLC

VARIABLES
    backend,   \* conf['type'] as dispatched by filter_factory: "disk" | "memcache"
    fs,        \* the tree under conf['location']: path -> node
    req,       \* self.req, set by every __call__
    resp,      \* what the last __call__ gave its caller
    stored,    \* history: per key, the entry of the last populate that returned
               \* 'Prefetched', cleared by a later invalidate that returned 'Deleted'
    touched,   \* history: per key, a populate that failed after opening the file
               \* has happened since the last completed populate or invalidate
    th,        \* the threads that run __call__ on the one middleware instance at
               \* the same time: per thread, its position and its local variables
    pure       \* the input and the result of write_metadata / read_metadata when
               \* they are applied on their own

vars == <<backend, fs, req, resp, stored, touched, th, pure>>

---------------------------------------------------------------------------
(* Bounds *)

\* Longest response body of the downstream application, in bytes.
MaxBody == 1

\* write_metadata's xattr_size (65536 at caching.py:99), scaled down so that
\* a pickled header dictionary spans several attribute slots.
XattrSize == 2

\* Longest byte string handed to write_metadata's loop on its own.
MaxStream == 5

---------------------------------------------------------------------------
(* Data *)

\* Request paths.  "/a/b" lies under "/a": its cache file needs "/a" to be
\* a directory, so the two keys share a path prefix.
Keys == {"/a", "/a/b"}

Root == "/"

\* os.path.dirname(obj_path), relative to conf['location'].
Dirname(k) == IF k = "/a/b" THEN "/a" ELSE Root

BodyBytes == {"x"}

Bodies == UNION {[1..n -> BodyBytes] : n \in 0..MaxBody}

Methods == {"GET", "POST", "PUT"}

\* The X-Object-Prefetch header of a request: absent, or one of its values.
Markers == {"absent", "True", "False", "maybe"}

\* The requests drawn.  Only a POST looks at the header; on the other
\* methods it is carried by some requests and not by others.
Requests ==
    [method : {"POST"}, path : Keys, marker : Markers]
    \cup [method : Methods \ {"POST"}, path : Keys, marker : {"absent", "maybe"}]

SWIFT_METADATA_KEY == "user.swift.metadata"

EmptyHeaders == << >>

DefaultContentType == "text/html; charset=UTF-8"

\* The header dictionaries the downstream application answers a body with:
\* a Content-Type always; a Content-Length, which is the body's length, or
\* none (a response without a declared length); an Etag or none.
DownHeaders(body) ==
    { ("Content-Length" :> Len(body)) @@ ("Content-Type" :> "text/plain"),
      ("Content-Length" :> Len(body)) @@ ("Content-Type" :> "text/plain") @@ ("Etag" :> "e1"),
      "Content-Type" :> "image/png" }

\* Responses of the downstream application.  status 0 stands for a call
\* that does not return a response (it is cancelled or times out and the
\* exception leaves get_response / self.app).
NoDown == [status |-> -1, body |-> << >>, headers |-> EmptyHeaders]

DownFailure == [status |-> 404, body |-> << >>,
                headers |-> ("Content-Length" :> 0) @@ ("Content-Type" :> DefaultContentType)]

DownTimeout == [status |-> 0, body |-> << >>, headers |-> EmptyHeaders]

DownSuccesses ==
    UNION { { [status |-> 200, body |-> b, headers |-> h] : h \in DownHeaders(b) } : b \in Bodies }

DownResponses == DownSuccesses \cup {DownFailure, DownTimeout}

\* swob's Response.is_success
IsSuccess(status) == status >= 200 /\ status < 300

---------------------------------------------------------------------------
(* pickle *)

HeaderOrder == <<"Content-Length", "Content-Type", "Etag">>

RECURSIVE ItemsFrom(_, _)
ItemsFrom(h, i) ==
    IF i > Len(HeaderOrder) THEN << >>
    ELSE (IF HeaderOrder[i] \in DOMAIN h
          THEN << <<HeaderOrder[i], h[HeaderOrder[i]]>> >>
          ELSE << >>) \o ItemsFrom(h, i + 1)

\* A serialization that writes nothing for an empty dictionary.
PickleDumps_EmptyForEmpty(h) ==
    IF DOMAIN h = {} THEN << >>
    ELSE << <<"PROTO">> >> \o ItemsFrom(h, 1) \o << <<"STOP">> >>

\* pickle.dumps(metadata, PICKLE_PROTOCOL): a protocol mark, one item per
\* header, a STOP opcode.  Never empty, also for an empty dictionary.
PickleDumps(h) == << <<"PROTO">> >> \o ItemsFrom(h, 1) \o << <<"STOP">> >>

\* Index of the first STOP opcode of s, 0 if there is none.
FirstStop(s) ==
    IF \E i \in 1..Len(s) : s[i] = <<"STOP">>
    THEN CHOOSE i \in 1..Len(s) :
            s[i] = <<"STOP">> /\ \A j \in 1..(i - 1) : s[j] # <<"STOP">>
    ELSE 0

RECURSIVE SetItems(_, _, _)
SetItems(items, i, acc) ==
    IF i > Len(items) THEN acc
    ELSE SetItems(items, i + 1, (items[i][1] :> items[i][2]) @@ acc)

\* pickle.loads(s): reads opcodes up to the first STOP and ignores what
\* follows it; raises when the stream does not start with the protocol
\* mark, repeats it, or ends before a STOP.
PickleLoads(s) ==
    LET stop == FirstStop(s) IN
    IF Len(s) = 0 \/ stop = 0 THEN [ok |-> FALSE, dict |-> EmptyHeaders]
    ELSE IF s[1] # <<"PROTO">> \/ \E j \in 2..(stop - 1) : s[j] = <<"PROTO">>
    THEN [ok |-> FALSE, dict |-> EmptyHeaders]
    ELSE [ok |-> TRUE, dict |-> SetItems(SubSeq(s, 2, stop - 1), 1, EmptyHeaders)]

---------------------------------------------------------------------------
(* swob *)

\* swob.Response(body=..., headers=..., request=...): status 200, the
\* default Content-Type and the body's length, then the given headers on
\* top; a Content-Length given with a non-empty body is dropped in favour
\* of the body's length.  hasHeaders is FALSE for headers=False / None.
SwobHeaders(body, hasHeaders, headers) ==
    LET base == ("Content-Type" :> DefaultContentType) @@ ("Content-Length" :> Len(body))
        given == IF ~hasHeaders THEN EmptyHeaders
                 ELSE IF Len(body) > 0
                 THEN [n \in DOMAIN headers \ {"Content-Length"} |-> headers[n]]
                 ELSE headers
    IN given @@ base

---------------------------------------------------------------------------
(* The cache directory *)

NoNode == [type |-> "none", data |-> << >>, xattr |-> << >>]

DirNode == [type |-> "dir", data |-> << >>, xattr |-> << >>]

\* os.path.exists
PathExists(f, p) == p = Root \/ f[p].type # "none"

\* os.path.isdir
IsDir(f, p) == p = Root \/ f[p].type = "dir"

\* os.path.isfile
IsFile(f, p) == p # Root /\ f[p].type = "file"

\* os.makedirs(p), called only when p does not exist.
RECURSIVE Makedirs(_, _)
Makedirs(f, p) ==
    IF PathExists(f, p) THEN f
    ELSE [Makedirs(f, Dirname(p)) EXCEPT ![p] = DirNode]

\* The attribute name of slot key: '%s%s' % (SWIFT_METADATA_KEY, key or '')
SlotName(key) ==
    IF key = 0 THEN SWIFT_METADATA_KEY ELSE SWIFT_METADATA_KEY \o ToString(key)

\* xattr.setxattr(fd, name, value): creates or replaces one attribute.
SetXattr(xattr, name, value) ==
    [n \in DOMAIN xattr \cup {name} |-> IF n = name THEN value ELSE xattr[n]]

\* A slice one byte short: metastr[:xattr_size - 1].
Take_OffByOne(s, n) == SubSeq(s, 1, IF Len(s) < n - 1 THEN Len(s) ELSE n - 1)

\* metastr[:xattr_size] and metastr[xattr_size:]
Take(s, n) == SubSeq(s, 1, IF Len(s) < n THEN Len(s) ELSE n)

Drop(s, n) == SubSeq(s, n + 1, Len(s))

\* Number of setxattr calls write_metadata makes for a stream of length n.
SlotCount(n) == (n + XattrSize - 1) \div XattrSize

---------------------------------------------------------------------------
(* I/O errors, as inputs *)

NoFault == [stage |-> "none", at |-> 0, errno |-> "none"]

\* EOPNOTSUPP and EDQUOT are handled like ENOTSUP and ENOSPC.
XattrWriteErrnos == {"ENOTSUP", "ENOSPC", "EIO"}

\* What can go wrong while the body and the headers are written: the body
\* write fails after `at` bytes, or the setxattr of slot `at` fails.
WriteFaults(body, headers) ==
    {NoFault}
    \cup { [stage |-> "body", at |-> n, errno |-> "ENOSPC"] : n \in 0..(Len(body) - 1) }
    \cup { [stage |-> "xattr", at |-> i, errno |-> e] :
              i \in 0..(SlotCount(Len(PickleDumps(headers))) - 1), e \in XattrWriteErrnos }

XattrReadErrnos == {"ENOTSUP", "ENOENT", "EIO"}

\* What can go wrong while the slots are read: the getxattr of slot `at`
\* fails with errno.  Without a fault the loop ends at the first slot that
\* is not there (ENODATA).
ReadFaults(xattr) ==
    {NoFault}
    \cup { [stage |-> "xattr", at |-> i, errno |-> e] :
              i \in 0..Cardinality(DOMAIN xattr), e \in XattrReadErrnos }

---------------------------------------------------------------------------
(* CachingMiddlewareDisk *)

\* The exception write_metadata raises for a failed setxattr.
WriteError(errno) ==
    IF errno \in {"ENOTSUP", "EOPNOTSUPP"} THEN "DiskFileXattrNotSupported"
    ELSE IF errno \in {"ENOSPC", "EDQUOT"} THEN "DiskFileNoSpace"
    ELSE "IOError"

\* write_metadata's loop from slot key on.
RECURSIVE WriteLoop(_, _, _, _)
WriteLoop(xattr, metastr, key, fault) ==
    IF Len(metastr) = 0 THEN [xattr |-> xattr, exc |-> "none"]
    ELSE IF fault.stage = "xattr" /\ fault.at = key
    THEN [xattr |-> xattr, exc |-> WriteError(fault.errno)]
    ELSE WriteLoop(SetXattr(xattr, SlotName(key), Take(metastr, XattrSize)),
                   Drop(metastr, XattrSize), key + 1, fault)

WriteMetadata(xattr, metadata, fault) ==
    WriteLoop(xattr, PickleDumps(metadata), 0, fault)

\* A loop that puts each slot read in front of the bytes read before it.
RECURSIVE ReadLoop_Descending(_, _, _, _)
ReadLoop_Descending(xattr, metadata, key, fault) ==
    IF fault.stage = "xattr" /\ fault.at = key
    THEN [metadata |-> metadata, errno |-> fault.errno]
    ELSE IF SlotName(key) \notin DOMAIN xattr
    THEN [metadata |-> metadata, errno |-> "ENODATA"]
    ELSE ReadLoop_Descending(xattr, xattr[SlotName(key)] \o metadata, key + 1, fault)

\* read_metadata's loop from slot key on: the bytes read and the errno
\* that ended the loop.
RECURSIVE ReadLoop(_, _, _, _)
ReadLoop(xattr, metadata, key, fault) ==
    IF fault.stage = "xattr" /\ fault.at = key
    THEN [metadata |-> metadata, errno |-> fault.errno]
    ELSE IF SlotName(key) \notin DOMAIN xattr
    THEN [metadata |-> metadata, errno |-> "ENODATA"]
    ELSE ReadLoop(xattr, metadata \o xattr[SlotName(key)], key + 1, fault)

\* read_metadata: kind "False" is the `return False` of an empty read,
\* kind "dict" a dictionary, kind "raise" an exception.
ReadMetadata(xattr, fault) ==
    LET r == ReadLoop(xattr, << >>, 0, fault)
        p == PickleLoads(r.metadata)
    IN  IF Len(r.metadata) = 0
        THEN [kind |-> "False", dict |-> EmptyHeaders, exc |-> "none"]
        ELSE IF r.errno \in {"ENOTSUP", "EOPNOTSUPP"}
        THEN [kind |-> "raise", dict |-> EmptyHeaders, exc |-> "DiskFileXattrNotSupported"]
        ELSE IF r.errno = "ENOENT"
        THEN [kind |-> "raise", dict |-> EmptyHeaders, exc |-> "DiskFileNotExist"]
        ELSE IF p.ok
        THEN [kind |-> "dict", dict |-> p.dict, exc |-> "none"]
        ELSE [kind |-> "raise", dict |-> EmptyHeaders, exc |-> "UnpicklingError"]

\* is_object_in_cache
DiskIsObjectInCache(f, k) == IsFile(f, k)

\* The store of prefetch_object's success branch: makedirs, open(obj_path,
\* 'w') and write, set_object_metadata.  opened tells whether the file was
\* opened (created or truncated).
DiskStore(f, k, body, headers, fault) ==
    LET f1 == IF PathExists(f, Dirname(k)) THEN f ELSE Makedirs(f, Dirname(k))
        f2 == [f1 EXCEPT ![k] = [type |-> "file", data |-> << >>, xattr |-> f1[k].xattr]]
        w  == WriteMetadata(f2[k].xattr, headers, fault)
    IN  IF f1[k].type = "dir" \/ ~IsDir(f1, Dirname(k))
        THEN [fs |-> f1, exc |-> "IOError", opened |-> FALSE]
        ELSE IF fault.stage = "body"
        THEN [fs |-> [f2 EXCEPT ![k].data = SubSeq(body, 1, fault.at)],
              exc |-> "IOError", opened |-> TRUE]
        ELSE [fs |-> [f2 EXCEPT ![k] = [type |-> "file", data |-> body, xattr |-> w.xattr]],
              exc |-> w.exc, opened |-> TRUE]

\* A removal of whatever is at the path, with everything under it.
DiskRemove_Tree(f, k) ==
    [p \in DOMAIN f |-> IF p = k \/ Dirname(p) = k THEN NoNode ELSE f[p]]

\* os.path.isfile(obj_path) and os.remove(obj_path): the file goes with all
\* its attributes.
DiskRemove(f, k) == IF IsFile(f, k) THEN [f EXCEPT ![k] = NoNode] ELSE f

---------------------------------------------------------------------------
(* Outcomes of __call__ *)

NoEntry == [ok |-> FALSE, body |-> << >>, headers |-> EmptyHeaders]

NoReq == [method |-> "none", path |-> "none", marker |-> "absent"]

\* kind: "response" (a swob Response built by the middleware), "forwarded"
\* (what self.app returned), "raised" (an exception left __call__).
\* hit: is_object_in_cache() was called and returned True.
\* forwarded: calls of self.app(env, start_response) for this request.
\* fetched: calls of new_req.get_response(self.app) for this request.
\* down: what the downstream application answered, if it was called.
\* fault: the I/O error met while the request was handled, NoFault if none.
Outcome(kind, status, body, headers, exc, hit, forwarded, fetched, down, fault) ==
    [kind |-> kind, status |-> status, body |-> body, headers |-> headers,
     exc |-> exc, hit |-> hit, forwarded |-> forwarded, fetched |-> fetched,
     down |-> down, fault |-> fault]

NoResp == Outcome("none", 0, << >>, EmptyHeaders, "none", FALSE, 0, 0, NoDown, NoFault)

\* Response(body=text, request=self.req)
StatusResponse(text, fetched, down) ==
    Outcome("response", 200, text, SwobHeaders(text, FALSE, EmptyHeaders),
            "none", FALSE, 0, fetched, down, NoFault)

Raised(exc, hit, forwarded, fetched, down, fault) ==
    Outcome("raised", 0, << >>, EmptyHeaders, exc, hit, forwarded, fetched, down, fault)

\* return self.app(env, start_response)
PassOn(hit, d) ==
    IF d = DownTimeout THEN Raised("Timeout", hit, 1, 0, d, NoFault)
    ELSE Outcome("forwarded", d.status, d.body, d.headers, "none", hit, 1, 0, d, NoFault)

\* get_cached_object answering with the body alone: Response(body=data).
DiskGetCachedObject_NoHeaders(f, k, fault) ==
    LET m == ReadMetadata(f[k].xattr, fault) IN
    IF m.kind = "raise" THEN Raised(m.exc, TRUE, 0, 0, NoDown, fault)
    ELSE Outcome("response", 200, f[k].data,
                 SwobHeaders(f[k].data, FALSE, EmptyHeaders),
                 "none", TRUE, 0, 0, NoDown, fault)

\* get_cached_object on the disk backend
DiskGetCachedObject(f, k, fault) ==
    LET m == ReadMetadata(f[k].xattr, fault) IN
    IF m.kind = "raise" THEN Raised(m.exc, TRUE, 0, 0, NoDown, fault)
    ELSE Outcome("response", 200, f[k].data,
                 SwobHeaders(f[k].data, m.kind = "dict", m.dict),
                 "none", TRUE, 0, 0, NoDown, fault)

---------------------------------------------------------------------------
(* Init *)

\* The threads of the WSGI server that call the middleware instance.
Threads == {1, 2}

\* A thread outside __call__.
Idle == [pc |-> "idle"]

\* write_metadata / read_metadata not applied.
NoPure == [op |-> "none"]

Init ==
    /\ backend \in {"disk", "memcache"}
    /\ fs = [k \in Keys |-> NoNode]
    /\ req = NoReq
    /\ resp = NoResp
    /\ stored = [k \in Keys |-> NoEntry]
    /\ touched = [k \in Keys |-> FALSE]
    /\ th = [t \in Threads |-> Idle]
    /\ pure = NoPure

---------------------------------------------------------------------------
(* __call__, one action per branch *)

\* GET, is_object_in_cache() true: get_cached_object
DiskGetHit(r) ==
    /\ backend = "disk"
    /\ r.method = "GET"
    /\ DiskIsObjectInCache(fs, r.path)
    /\ req' = r
    /\ \E fault \in ReadFaults(fs[r.path].xattr) :
          resp' = DiskGetCachedObject(fs, r.path, fault)
    /\ UNCHANGED <<backend, fs, stored, touched, th, pure>>

\* A miss that keeps what the downstream application answered (a
\* read-through cache).
DiskGetMiss_ReadThrough(r, d) ==
    /\ backend = "disk"
    /\ r.method = "GET"
    /\ ~DiskIsObjectInCache(fs, r.path)
    /\ req' = r
    /\ resp' = PassOn(FALSE, d)
    /\ fs' = IF IsSuccess(d.status)
             THEN DiskStore(fs, r.path, d.body, d.headers, NoFault).fs
             ELSE fs
    /\ UNCHANGED <<backend, stored, touched, th, pure>>

\* GET, is_object_in_cache() false: falls through to self.app
DiskGetMiss(r, d) ==
    /\ backend = "disk"
    /\ r.method = "GET"
    /\ ~DiskIsObjectInCache(fs, r.path)
    /\ req' = r
    /\ resp' = PassOn(FALSE, d)
    /\ UNCHANGED <<backend, fs, stored, touched, th, pure>>

\* POST with X-Object-Prefetch: True on the disk backend
DiskPopulate(r, d) ==
    /\ backend = "disk"
    /\ r.method = "POST"
    /\ r.marker = "True"
    /\ req' = r
    /\ IF d = DownTimeout
       THEN /\ resp' = Raised("Timeout", FALSE, 0, 1, d, NoFault)
            /\ UNCHANGED <<fs, stored, touched>>
       ELSE IF ~IsSuccess(d.status)
       THEN \* Response(..., request=self.request): no such attribute
            /\ resp' = Raised("AttributeError", FALSE, 0, 1, d, NoFault)
            /\ UNCHANGED <<fs, stored, touched>>
       ELSE \E fault \in WriteFaults(d.body, d.headers) :
            LET st == DiskStore(fs, r.path, d.body, d.headers, fault) IN
            /\ fs' = st.fs
            /\ IF st.exc = "none"
               THEN /\ resp' = StatusResponse(<<"Prefetched: ", r.path>>, 1, d)
                    /\ stored' = [stored EXCEPT ![r.path] =
                                    [ok |-> TRUE, body |-> d.body, headers |-> d.headers]]
                    /\ touched' = [touched EXCEPT ![r.path] = FALSE]
               ELSE /\ resp' = Raised(st.exc, FALSE, 0, 1, d, fault)
                    /\ stored' = stored
                    /\ touched' = [touched EXCEPT ![r.path] = @ \/ st.opened]
    /\ UNCHANGED <<backend, th, pure>>

\* POST with X-Object-Prefetch: False on the disk backend
DiskInvalidate(r) ==
    /\ backend = "disk"
    /\ r.method = "POST"
    /\ r.marker = "False"
    /\ req' = r
    /\ fs' = DiskRemove(fs, r.path)
    /\ resp' = StatusResponse(<<"Deleted ", r.path, " from cache">>, 0, NoDown)
    /\ stored' = [stored EXCEPT ![r.path] = NoEntry]
    /\ touched' = [touched EXCEPT ![r.path] = FALSE]
    /\ UNCHANGED <<backend, th, pure>>

\* POST with X-Object-Prefetch of another value: prefetch_object falls off
\* both branches and returns None, and __call__ calls it.
PostOtherMarker(r) ==
    /\ r.method = "POST"
    /\ r.marker \notin {"absent", "True", "False"}
    /\ req' = r
    /\ resp' = Raised("TypeError", FALSE, 0, 0, NoDown, NoFault)
    /\ UNCHANGED <<backend, fs, stored, touched, th, pure>>

\* POST without the header, or a method other than GET and POST
PassThrough(r, d) ==
    /\ \/ r.method = "POST" /\ r.marker = "absent"
       \/ r.method \notin {"GET", "POST"}
    /\ req' = r
    /\ resp' = PassOn(FALSE, d)
    /\ UNCHANGED <<backend, fs, stored, touched, th, pure>>

\* GET on the memcache backend: is_object_in_cache reads self.memcache,
\* which no code of the class assigns.
MemcacheGet(r) ==
    /\ backend = "memcache"
    /\ r.method = "GET"
    /\ req' = r
    /\ resp' = Raised("AttributeError", FALSE, 0, 0, NoDown, NoFault)
    /\ UNCHANGED <<backend, fs, stored, touched, th, pure>>

\* POST with X-Object-Prefetch True or False on the memcache backend: the
\* True branch reads self.request, the False branch self.memcache; neither
\* attribute is ever assigned.
MemcachePrefetch(r) ==
    /\ backend = "memcache"
    /\ r.method = "POST"
    /\ r.marker \in {"True", "False"}
    /\ req' = r
    /\ resp' = Raised("AttributeError", FALSE, 0, 0, NoDown, NoFault)
    /\ UNCHANGED <<backend, fs, stored, touched, th, pure>>

Next ==
    \E r \in Requests :
        \/ DiskGetHit(r)
        \/ \E d \in DownResponses : DiskGetMiss(r, d)
        \/ \E d \in DownResponses : DiskPopulate(r, d)
        \/ DiskInvalidate(r)
        \/ PostOtherMarker(r)
        \/ \E d \in DownResponses : PassThrough(r, d)
        \/ MemcacheGet(r)
        \/ MemcachePrefetch(r)

Spec == Init /\ [][Next]_vars

---------------------------------------------------------------------------
(* __call__ run by several threads on one middleware instance *)

\* The WSGI server calls the one instance returned by caching_filter from
\* every thread that serves a request.  self.req is an attribute of the
\* instance, shared by the threads; env, obj_path, response, data and the
\* file descriptors are locals of each call.  Each step below is one or a
\* few statements of the code, run without interruption; a thread may be
\* suspended between two steps.  No I/O error is drawn here.

\* A thread's locals.
\*   env: the request the thread was called with         obj_path: its obj_path
\*   d: the response of new_req.get_response             fetched: the path of new_req
\*   fd: "open" while the thread's descriptor names the file at obj_path,
\*       "unlinked" once another thread has removed that file
\*   metastr, key: write_metadata's locals               data: f.read()
\*   out: what the call gave its caller                  served: the file read for it
Thread(pc, env, obj_path, d, fetched, fd, metastr, key, data, out, served) ==
    [pc |-> pc, env |-> env, obj_path |-> obj_path, d |-> d, fetched |-> fetched,
     fd |-> fd, metastr |-> metastr, key |-> key, data |-> data, out |-> out,
     served |-> served]

\* The thread has entered __call__ with env.
Called(env) ==
    Thread("called", env, "none", NoDown, "none", "none", << >>, 0, << >>, NoResp, "none")

\* The thread's call has ended with out.
Done(l, out) == [l EXCEPT !.pc = "done", !.out = out]

\* fn.write(body) on a descriptor opened at offset 0: the bytes replace the
\* first Len(body) bytes of what the file holds.
WriteAt(old, body) == body \o SubSeq(old, Len(body) + 1, Len(old))

\* makedirs and open(obj_path, 'w'): the file is created, or truncated with
\* its attributes kept; ok is FALSE when open raises IOError.
DiskOpen(f, k) ==
    LET f1 == IF PathExists(f, Dirname(k)) THEN f ELSE Makedirs(f, Dirname(k)) IN
    IF f1[k].type = "dir" \/ ~IsDir(f1, Dirname(k))
    THEN [fs |-> f1, ok |-> FALSE]
    ELSE [fs |-> [f1 EXCEPT ![k] = [type |-> "file", data |-> << >>, xattr |-> f1[k].xattr]],
          ok |-> TRUE]

\* self.req = Request(env)
T_Call(t, r) ==
    /\ backend = "disk"
    /\ th[t].pc = "idle"
    /\ req' = r
    /\ th' = [th EXCEPT ![t] = Called(r)]
    /\ UNCHANGED <<backend, fs, resp, stored, touched, pure>>

\* The tests of __call__ on self.req, is_object_in_cache() for a GET, and
\* the obj_path and the header test of prefetch_object for a POST.
T_Dispatch(t) ==
    /\ th[t].pc = "called"
    /\ LET l == [th[t] EXCEPT !.obj_path = req.path] IN
       th' = [th EXCEPT ![t] =
          IF req.method = "GET"
          THEN [l EXCEPT !.pc = IF DiskIsObjectInCache(fs, req.path) THEN "hit" ELSE "pass"]
          ELSE IF req.method = "POST" /\ req.marker # "absent"
          THEN IF req.marker = "True" THEN [l EXCEPT !.pc = "fetch"]
               ELSE IF req.marker = "False" THEN [l EXCEPT !.pc = "remove"]
               ELSE Done(l, Raised("TypeError", FALSE, 0, 0, NoDown, NoFault))
          ELSE [l EXCEPT !.pc = "pass"]]
    /\ UNCHANGED <<backend, fs, req, resp, stored, touched, pure>>

\* return self.app(env, start_response)
T_PassOn(t, d) ==
    /\ th[t].pc = "pass"
    /\ th' = [th EXCEPT ![t] = Done(@, PassOn(FALSE, d))]
    /\ UNCHANGED <<backend, fs, req, resp, stored, touched, pure>>

\* get_cached_object: obj_path from self.req.path, open and f.read()
T_ReadData(t) ==
    /\ th[t].pc = "hit"
    /\ th' = [th EXCEPT ![t] =
          IF IsFile(fs, req.path)
          THEN [@ EXCEPT !.pc = "meta", !.obj_path = req.path, !.data = fs[req.path].data]
          ELSE Done(@, Raised("IOError", TRUE, 0, 0, NoDown, NoFault))]
    /\ UNCHANGED <<backend, fs, req, resp, stored, touched, pure>>

\* get_object_metadata(obj_path) and the Response of get_cached_object
T_ReadMetadata(t) ==
    /\ th[t].pc = "meta"
    /\ LET p == th[t].obj_path
           m == ReadMetadata(fs[p].xattr, NoFault)
       IN th' = [th EXCEPT ![t] =
             IF ~IsFile(fs, p) THEN Done(@, Raised("OSError", TRUE, 0, 0, NoDown, NoFault))
             ELSE IF m.kind = "raise" THEN Done(@, Raised(m.exc, TRUE, 0, 0, NoDown, NoFault))
             ELSE [Done(@, Outcome("response", 200, th[t].data,
                                  SwobHeaders(th[t].data, m.kind = "dict", m.dict),
                                  "none", TRUE, 0, 0, NoDown, NoFault))
                   EXCEPT !.served = p]]
    /\ UNCHANGED <<backend, fs, req, resp, stored, touched, pure>>

\* new_req = self.req.copy_get(); response = new_req.get_response(self.app)
T_GetResponse(t, d) ==
    /\ th[t].pc = "fetch"
    /\ th' = [th EXCEPT ![t] =
          IF d = DownTimeout
          THEN Done([@ EXCEPT !.fetched = req.path],
                    Raised("Timeout", FALSE, 0, 1, d, NoFault))
          ELSE IF ~IsSuccess(d.status)
          THEN Done([@ EXCEPT !.fetched = req.path],
                    Raised("AttributeError", FALSE, 0, 1, d, NoFault))
          ELSE [@ EXCEPT !.pc = "open", !.d = d, !.fetched = req.path]]
    /\ UNCHANGED <<backend, fs, req, resp, stored, touched, pure>>

\* os.makedirs and open(obj_path, 'w')
T_Open(t) ==
    /\ th[t].pc = "open"
    /\ LET o == DiskOpen(fs, th[t].obj_path) IN
       /\ fs' = o.fs
       /\ th' = [th EXCEPT ![t] =
             IF o.ok THEN [@ EXCEPT !.pc = "write", !.fd = "open"]
             ELSE Done(@, Raised("IOError", FALSE, 0, 1, th[t].d, NoFault))]
    /\ UNCHANGED <<backend, req, resp, stored, touched, pure>>

\* fn.write(response.body) and the close of the with block; then
\* set_object_metadata up to write_metadata's loop: os.open(obj_path,
\* os.O_WRONLY) and pickle.dumps.
T_Write(t) ==
    /\ th[t].pc = "write"
    /\ LET p == th[t].obj_path IN
       /\ fs' = IF th[t].fd = "open"
                THEN [fs EXCEPT ![p].data = WriteAt(@, th[t].d.body)]
                ELSE fs
       /\ th' = [th EXCEPT ![t] =
             IF IsFile(fs, p)
             THEN [@ EXCEPT !.pc = "xattr", !.fd = "open",
                            !.metastr = PickleDumps(th[t].d.headers), !.key = 0]
             ELSE Done(@, Raised("OSError", FALSE, 0, 1, th[t].d, NoFault))]
    /\ UNCHANGED <<backend, req, resp, stored, touched, pure>>

\* One turn of write_metadata's loop.
T_SetXattr(t) ==
    /\ th[t].pc = "xattr"
    /\ Len(th[t].metastr) > 0
    /\ LET p == th[t].obj_path IN
       fs' = IF th[t].fd = "open"
             THEN [fs EXCEPT ![p].xattr =
                      SetXattr(@, SlotName(th[t].key), Take(th[t].metastr, XattrSize))]
             ELSE fs
    /\ th' = [th EXCEPT ![t].metastr = Drop(@, XattrSize), ![t].key = @ + 1]
    /\ UNCHANGED <<backend, req, resp, stored, touched, pure>>

\* The loop's end, os.close(fd) and Response(body='Prefetched: ' +
\* self.req.path, request=self.req)
T_Prefetched(t) ==
    /\ th[t].pc = "xattr"
    /\ Len(th[t].metastr) = 0
    /\ th' = [th EXCEPT ![t] =
          Done(@, StatusResponse(<<"Prefetched: ", req.path>>, 1, th[t].d))]
    /\ UNCHANGED <<backend, fs, req, resp, stored, touched, pure>>

\* The False branch of prefetch_object: os.path.isfile, os.remove and the
\* Response.  A descriptor another thread holds on the file goes on naming
\* the removed file.
T_Remove(t) ==
    /\ th[t].pc = "remove"
    /\ LET p == th[t].obj_path IN
       /\ fs' = DiskRemove(fs, p)
       /\ th' = [u \in Threads |->
             IF u = t
             THEN Done(th[t], StatusResponse(<<"Deleted ", req.path, " from cache">>, 0, NoDown))
             ELSE IF IsFile(fs, p) /\ th[u].pc \in {"write", "xattr"}
                     /\ th[u].obj_path = p /\ th[u].fd = "open"
             THEN [th[u] EXCEPT !.fd = "unlinked"]
             ELSE th[u]]
    /\ UNCHANGED <<backend, req, resp, stored, touched, pure>>

NextThreads ==
    \E t \in Threads :
        \/ \E r \in Requests : T_Call(t, r)
        \/ T_Dispatch(t)
        \/ \E d \in DownResponses : T_PassOn(t, d)
        \/ T_ReadData(t)
        \/ T_ReadMetadata(t)
        \/ \E d \in DownResponses : T_GetResponse(t, d)
        \/ T_Open(t)
        \/ T_Write(t)
        \/ T_SetXattr(t)
        \/ T_Prefetched(t)
        \/ T_Remove(t)

\* filter_factory with type = disk, the cache directory empty, no thread
\* inside __call__.
InitThreads == Init /\ backend = "disk"

SpecThreads == InitThreads /\ [][NextThreads]_vars

---------------------------------------------------------------------------
(* write_metadata and read_metadata applied on their own *)

\* The bytes of a serialized stream.
StreamBytes == { <<"PROTO">>, <<"STOP">> }

\* The streams pickle.dumps may hand to write_metadata's loop: never empty.
Streams == UNION { [1..n -> StreamBytes] : n \in 1..MaxStream }

\* The header dictionaries stored with body b: those the downstream
\* application answers b with, and the empty dictionary.
PureHeaders(b) == {EmptyHeaders} \cup DownHeaders(b)

EmptyFs == [k \in Keys |-> NoNode]

\* The cache directory before a store: empty, or holding an entry of the key.
PriorFs(k) ==
    {EmptyFs} \cup { DiskStore(EmptyFs, k, << >>, h, NoFault).fs : h \in DownHeaders(<< >>) }

\* op "chunk": metastr is split into the slots xattr of a new file, and
\*             metadata is what the slots are read back as.
\* op "store": body and headers are stored under key in directory f, and got
\*             is what get_cached_object answers.
Pure(op, stage, metastr, xattr, metadata, key, body, headers, f, got) ==
    [op |-> op, stage |-> stage, metastr |-> metastr, xattr |-> xattr,
     metadata |-> metadata, key |-> key, body |-> body, headers |-> headers,
     f |-> f, got |-> got]

PureInputs ==
    { Pure("chunk", "input", s, << >>, << >>, "none", << >>, EmptyHeaders, EmptyFs, NoResp) :
        s \in Streams }
    \cup UNION { UNION { { Pure("store", "input", << >>, << >>, << >>, k, b, h, f, NoResp) :
                           f \in PriorFs(k), h \in PureHeaders(b) } : b \in Bodies } : k \in Keys }

InitPure ==
    /\ backend = "disk"
    /\ fs = EmptyFs
    /\ req = NoReq
    /\ resp = NoResp
    /\ stored = [k \in Keys |-> NoEntry]
    /\ touched = [k \in Keys |-> FALSE]
    /\ th = [t \in Threads |-> Idle]
    /\ pure \in PureInputs

\* write_metadata's loop on the attributes of a new file
P_WriteMetadata ==
    /\ pure.op = "chunk"
    /\ pure.stage = "input"
    /\ pure' = [pure EXCEPT !.stage = "written",
                            !.xattr = WriteLoop(<< >>, pure.metastr, 0, NoFault).xattr]
    /\ UNCHANGED <<backend, fs, req, resp, stored, touched, th>>

\* read_metadata's loop on the attributes written
P_ReadMetadata ==
    /\ pure.op = "chunk"
    /\ pure.stage = "written"
    /\ pure' = [pure EXCEPT !.stage = "read",
                            !.metadata = ReadLoop(pure.xattr, << >>, 0, NoFault).metadata]
    /\ UNCHANGED <<backend, fs, req, resp, stored, touched, th>>

\* The store of prefetch_object, without I/O error
P_Store ==
    /\ pure.op = "store"
    /\ pure.stage = "input"
    /\ LET st == DiskStore(pure.f, pure.key, pure.body, pure.headers, NoFault) IN
       pure' = [pure EXCEPT !.stage = IF st.exc = "none" THEN "written" ELSE "failed",
                            !.f = st.fs]
    /\ UNCHANGED <<backend, fs, req, resp, stored, touched, th>>

\* get_cached_object on the entry stored
P_Fetch ==
    /\ pure.op = "store"
    /\ pure.stage = "written"
    /\ pure' = [pure EXCEPT !.stage = "read",
                            !.got = DiskGetCachedObject(pure.f, pure.key, NoFault)]
    /\ UNCHANGED <<backend, fs, req, resp, stored, touched, th>>

NextPure == P_WriteMetadata \/ P_ReadMetadata \/ P_Store \/ P_Fetch

SpecPure == InitPure /\ [][NextPure]_vars

---------------------------------------------------------------------------
(* Properties *)

IsPopulate(r) == r.method = "POST" /\ r.marker = "True"

IsInvalidate(r) == r.method = "POST" /\ r.marker = "False"

\* A request has been handled.
Handled == resp.kind # "none"

\* The headers got carry every header of h with its value, and a
\* Content-Length of n.
Reproduces(got, h, n) ==
    /\ \A name \in DOMAIN h : name \in DOMAIN got /\ got[name] = h[name]
    /\ "Content-Length" \in DOMAIN got
    /\ got["Content-Length"] = n

\* The middleware answered from the cache, without the downstream application.
FromCache == resp.kind = "response" /\ resp.hit /\ resp.forwarded = 0 /\ resp.fetched = 0

\* C1: on the disk backend, Exists(K) is true exactly when a populate of K
\* succeeded and no invalidate of K succeeded after it.
C1_ExistsIffStored ==
    backend = "disk" => \A k \in Keys : DiskIsObjectInCache(fs, k) <=> stored[k].ok

\* C2: a GET for a key that holds an entry (the last populate of the key
\* completed, and neither an invalidate nor a failed store has touched the
\* file since), read without an I/O error, is answered from the cache with
\* the stored body, the stored headers and status 200, and the downstream
\* application is not called.
C2_HitServedFromCache ==
    (/\ backend = "disk"
     /\ req.method = "GET"
     /\ Handled
     /\ stored[req.path].ok
     /\ ~touched[req.path]
     /\ resp.fault = NoFault)
    => (/\ FromCache
        /\ resp.status = 200
        /\ resp.body = stored[req.path].body
        /\ Reproduces(resp.headers, stored[req.path].headers, Len(stored[req.path].body)))

C2_Witness ==
    /\ backend = "disk"
    /\ req.method = "GET"
    /\ stored[req.path].ok
    /\ ~touched[req.path]
    /\ resp.fault = NoFault
    /\ FromCache
    /\ Len(resp.body) > 0
    /\ "Etag" \in DOMAIN resp.headers

\* C3: on the disk backend no GET changes the cache directory, and a GET
\* for a key without a cache file calls the downstream application once
\* and gives its caller what that call gave: the response unchanged, or
\* the exception of a call that did not return.
C3_MissForwardedCacheUnchanged ==
    [][ (backend = "disk" /\ req'.method = "GET")
        => /\ fs' = fs
           /\ ~DiskIsObjectInCache(fs, req'.path)
              => /\ resp'.forwarded = 1
                 /\ resp'.fetched = 0
                 /\ \/ /\ resp'.kind = "forwarded"
                       /\ resp'.status = resp'.down.status
                       /\ resp'.body = resp'.down.body
                       /\ resp'.headers = resp'.down.headers
                    \/ /\ resp'.kind = "raised"
                       /\ resp'.down = DownTimeout ]_vars

C3_Witness ==
    /\ backend = "disk"
    /\ req.method = "GET"
    /\ ~DiskIsObjectInCache(fs, req.path)
    /\ resp.kind = "forwarded"
    /\ resp.forwarded = 1
    /\ resp.status = 200
    /\ Len(resp.body) > 0

\* C4: after a populate that completed on the disk backend, a fetch of the
\* key gives the body that was stored, headers with every stored header's
\* value, and a Content-Length that is the body's length.
C4_RoundTrip ==
    (backend = "disk" /\ IsPopulate(req) /\ resp.kind = "response")
    => LET got == DiskGetCachedObject(fs, req.path, NoFault) IN
       /\ got.kind = "response"
       /\ got.body = resp.down.body
       /\ Reproduces(got.headers, resp.down.headers, Len(resp.down.body))

C4_Witness ==
    /\ backend = "disk"
    /\ IsPopulate(req)
    /\ resp.kind = "response"
    /\ Len(resp.down.body) > 0
    /\ "Etag" \in DOMAIN resp.down.headers
    /\ Cardinality(DOMAIN fs[req.path].xattr) > 1
    /\ DiskGetCachedObject(fs, req.path, NoFault).body = resp.down.body

\* C5: a GET that finds the cache file but cannot fetch the entry (no slot
\* read, or the read raises) is forwarded to the downstream application.
C5_FailOpenOnRead ==
    (/\ backend = "disk"
     /\ req.method = "GET"
     /\ resp.hit
     /\ ReadMetadata(fs[req.path].xattr, resp.fault).kind # "dict")
    => (resp.kind = "forwarded" /\ resp.forwarded = 1)

\* C6: a populate whose downstream fetch does not succeed ends with a
\* failure status response and leaves the cache directory unchanged.
C6_PopulateFailure ==
    [][ (IsPopulate(req') /\ resp'.fetched = 1 /\ ~IsSuccess(resp'.down.status))
        => (resp'.kind = "response" /\ resp'.status >= 400 /\ fs' = fs) ]_vars

\* C7: after a store has failed part-way on a key, no GET for that key is
\* answered from the cache.
C7_FailedStoreNotServed ==
    (/\ backend = "disk"
     /\ req.method = "GET"
     /\ Handled
     /\ touched[req.path]
     /\ resp.fault = NoFault)
    => resp.kind # "response"

\* C8: a populate whose downstream fetch succeeded ends with a status
\* response: a success only if nothing failed while storing, a failure if
\* the store failed.
C8_PopulateStatus ==
    (backend = "disk" /\ IsPopulate(req) /\ Handled /\ IsSuccess(resp.down.status))
    => /\ resp.kind = "response"
       /\ IsSuccess(resp.status) <=> resp.fault = NoFault

\* C9: an invalidate ends with a success status response, and on the disk
\* backend the key has no cache file after it.
C9_InvalidateIdempotent ==
    (IsInvalidate(req) /\ Handled)
    => /\ resp.kind = "response"
       /\ IsSuccess(resp.status)
       /\ backend = "disk" => ~DiskIsObjectInCache(fs, req.path)

\* The disk half of C9.
DiskInvalidateIdempotent ==
    (backend = "disk" /\ IsInvalidate(req) /\ Handled) => C9_InvalidateIdempotent

\* C10: on the disk backend a request whose X-Object-Prefetch is neither
\* "True" nor "False" leaves the cache directory unchanged and is no error:
\* a method other than GET is passed on to the downstream application.
C10_OtherMarkerValue ==
    [][ (backend = "disk" /\ req'.marker = "maybe")
        => /\ fs' = fs
           /\ resp'.exc # "TypeError"
           /\ req'.method # "GET" => resp'.forwarded = 1 ]_vars

---------------------------------------------------------------------------
(* Properties of concurrent calls *)

\* The entry a completed store of thread u would be fetched as.
StoreOf(u) ==
    [body |-> th[u].d.body,
     headers |-> SwobHeaders(th[u].d.body, TRUE, th[u].d.headers)]

\* C11: a GET for key K that runs while another thread populates K, and
\* that found the cache file, is answered with the complete body and headers
\* of that one store: never with an exception, a body without its headers
\* or a body cut short.
C11_NoTornEntry ==
    \A t \in Threads : \A u \in Threads \ {t} :
        (/\ th[t].pc = "done"
         /\ th[t].env.method = "GET"
         /\ th[t].out.hit
         /\ th[u].pc # "idle"
         /\ IsPopulate(th[u].env)
         /\ th[u].env.path = th[t].env.path)
        => /\ th[t].out.kind = "response"
           /\ th[t].out.body = StoreOf(u).body
           /\ th[t].out.headers = StoreOf(u).headers

\* C12: of two calls for different keys that run at the same time, each
\* acts on the key of its own request (the file it tests, reads, writes or
\* removes, the object it fetches) and gives its caller the response of its
\* own request: a GET is answered from the cache or passed on, a status
\* response names the request's own key.
C12_NoCrossRequestState ==
    \A t \in Threads : \A u \in Threads \ {t} :
        (/\ th[t].pc = "done"
         /\ th[u].pc # "idle"
         /\ th[u].env.path # th[t].env.path)
        => /\ th[t].obj_path = th[t].env.path
           /\ th[t].fetched \in {"none", th[t].env.path}
           /\ th[t].served \in {"none", th[t].env.path}
           /\ th[t].env.method = "GET"
              => (th[t].out.fetched = 0 /\ (th[t].out.kind = "response" => th[t].out.hit))
           /\ (th[t].out.kind = "response" /\ ~th[t].out.hit)
              => (th[t].env.method = "POST" /\ th[t].out.body[2] = th[t].env.path)

\* C13: when two populates of the same key that ran at the same time have
\* both answered 'Prefetched', a fetch of the key gives the body and the
\* headers of one of the two stores.
C13_LastWriterWins ==
    \A t \in Threads : \A u \in Threads \ {t} :
        (/\ th[t].pc = "done" /\ th[u].pc = "done"
         /\ IsPopulate(th[t].env) /\ IsPopulate(th[u].env)
         /\ th[t].env.path = th[u].env.path
         /\ th[t].out.kind = "response" /\ th[u].out.kind = "response"
         /\ th[t].out.fetched = 1 /\ th[u].out.fetched = 1)
        => LET got == DiskGetCachedObject(fs, th[t].env.path, NoFault) IN
           \E w \in {t, u} :
              /\ got.kind = "response"
              /\ got.body = StoreOf(w).body
              /\ got.headers = StoreOf(w).headers

---------------------------------------------------------------------------
(* Properties of the backends and of repeated stores *)

\* What the disk backend answers to request r when r is the first request
\* after construction (the cache directory is empty).
DiskFirstAnswers(r) ==
    IF r.method = "GET" THEN { PassOn(FALSE, d) : d \in DownResponses }
    ELSE IF IsInvalidate(r)
    THEN { StatusResponse(<<"Deleted ", r.path, " from cache">>, 0, NoDown) }
    ELSE IF IsPopulate(r)
    THEN { Raised("Timeout", FALSE, 0, 1, DownTimeout, NoFault),
           Raised("AttributeError", FALSE, 0, 1, DownFailure, NoFault) }
         \cup UNION { { LET st == DiskStore([k \in Keys |-> NoNode], r.path,
                                            d.body, d.headers, fault) IN
                        IF st.exc = "none"
                        THEN StatusResponse(<<"Prefetched: ", r.path>>, 1, d)
                        ELSE Raised(st.exc, FALSE, 0, 1, d, fault)
                        : fault \in WriteFaults(d.body, d.headers) }
                      : d \in DownSuccesses }
    ELSE IF r.method = "POST" /\ r.marker # "absent"
    THEN { Raised("TypeError", FALSE, 0, 0, NoDown, NoFault) }
    ELSE { PassOn(FALSE, d) : d \in DownResponses }

\* The first request on the disk backend is answered as DiskFirstAnswers says.
DiskFirstAnswersRight ==
    [][ (backend = "disk" /\ req = NoReq) => resp' \in DiskFirstAnswers(req') ]_vars

\* C14: the memcache backend gives a request the result the disk backend
\* gives it after the same requests with the same downstream responses;
\* stated for the first request after construction, and for an invalidate
\* (which the disk backend answers 'Deleted' in every state).
C14_BackendParity ==
    [][ backend = "memcache"
        => /\ req = NoReq => resp' \in DiskFirstAnswers(req')
           /\ IsInvalidate(req') => resp' \in DiskFirstAnswers(req') ]_vars

\* The cache file of k holds entry e and nothing else: the body, and the
\* attribute slots write_metadata makes of the headers on a new file.
CleanEntry(f, k, e) ==
    /\ e.ok
    /\ IsFile(f, k)
    /\ f[k].data = e.body
    /\ f[k].xattr = WriteMetadata(<< >>, e.headers, NoFault).xattr

\* C15: a populate of a key whose file holds exactly the entry of an earlier
\* store fetches from the downstream application and, when it answers
\* 'Prefetched', leaves a file that holds exactly the new entry: no byte of
\* the old body and no attribute slot of the old headers remains.
C15_AlwaysRefresh ==
    [][ (/\ backend = "disk"
         /\ IsPopulate(req')
         /\ resp'.kind = "response"
         /\ CleanEntry(fs, req'.path, stored[req'.path]))
        => /\ resp'.fetched = 1
           /\ CleanEntry(fs', req'.path, stored'[req'.path]) ]_vars

---------------------------------------------------------------------------
(* Properties of write_metadata and read_metadata *)

\* C16: write_metadata's loop splits a stream of n bytes into ceil(n /
\* xattr_size) slots numbered from 0, slot 0 under the unsuffixed name, slot
\* i holding the bytes from i * xattr_size on, at most xattr_size of them;
\* read_metadata's loop reads the slots back as the same stream.
C16_Chunking ==
    (pure.op = "chunk" /\ pure.stage \in {"written", "read"})
    => LET n == Len(pure.metastr)
           c == (n + XattrSize - 1) \div XattrSize
       IN  /\ DOMAIN pure.xattr = { SlotName(i) : i \in 0..(c - 1) }
           /\ SWIFT_METADATA_KEY \in DOMAIN pure.xattr
           /\ \A i \in 0..(c - 1) :
                 LET last == IF (i + 1) * XattrSize < n THEN (i + 1) * XattrSize ELSE n IN
                 /\ Len(pure.xattr[SlotName(i)]) <= XattrSize
                 /\ pure.xattr[SlotName(i)] = SubSeq(pure.metastr, i * XattrSize + 1, last)
           /\ pure.stage = "read" => pure.metadata = pure.metastr

C16_Witness ==
    /\ pure.op = "chunk"
    /\ pure.stage = "read"
    /\ Len(pure.metastr) = XattrSize + 1
    /\ Cardinality(DOMAIN pure.xattr) = 2
    /\ pure.metastr[1] # pure.metastr[XattrSize + 1]
    /\ pure.metadata = pure.metastr

\* C18: the file of every store that completed carries slot 0, not empty,
\* also when the header dictionary is empty; read_metadata does not return
\* False for it, and get_cached_object answers with the stored headers.
C18_SlotZeroAlways ==
    (pure.op = "store" /\ pure.stage \in {"written", "read"})
    => LET xattr == pure.f[pure.key].xattr IN
       /\ SWIFT_METADATA_KEY \in DOMAIN xattr
       /\ Len(xattr[SWIFT_METADATA_KEY]) > 0
       /\ ReadMetadata(xattr, NoFault).kind = "dict"
       /\ pure.stage = "read"
          => /\ pure.got.kind = "response"
             /\ pure.got.body = pure.body
             /\ Reproduces(pure.got.headers, pure.headers, Len(pure.body))

C18_Witness ==
    /\ pure.op = "store"
    /\ pure.stage = "read"
    /\ pure.headers = EmptyHeaders
    /\ DOMAIN pure.f[pure.key].xattr = {SWIFT_METADATA_KEY}
    /\ pure.got.kind = "response"
    /\ pure.got.headers = SwobHeaders(pure.body, TRUE, EmptyHeaders)

---------------------------------------------------------------------------
(* Properties of completion and of the frame *)

\* C17: on the disk backend every request handled without I/O error, the
\* downstream application having returned, ends with one response: it is
\* answered from the cache, answered with a status response of a populate
\* or an invalidate, or forwarded once.
C17_OneResponse ==
    (/\ backend = "disk"
     /\ Handled
     /\ resp.fault = NoFault
     /\ resp.down # DownTimeout)
    => \/ FromCache
       \/ /\ resp.kind = "response"
          /\ IsPopulate(req) \/ IsInvalidate(req)
          /\ resp.forwarded = 0
       \/ /\ resp.kind = "forwarded"
          /\ resp.forwarded = 1
          /\ resp.fetched = 0

\* C19: a populate or an invalidate of key K leaves every other key as it
\* was: whether it has a cache file, and the file's body and attributes;
\* and a request that is neither a GET nor a POST with the X-Object-Prefetch
\* header is passed on once, without a test of the cache and with the cache
\* directory unchanged.
C19_Frame ==
    [][ /\ (backend = "disk" /\ (IsPopulate(req') \/ IsInvalidate(req')))
           => \A k \in Keys \ {req'.path} :
                 /\ DiskIsObjectInCache(fs', k) = DiskIsObjectInCache(fs, k)
                 /\ DiskIsObjectInCache(fs, k) => fs'[k] = fs[k]
        /\ (req'.method # "GET" /\ ~(req'.method = "POST" /\ req'.marker # "absent"))
           => /\ fs' = fs
              /\ ~resp'.hit
              /\ resp'.fetched = 0
              /\ resp' = PassOn(FALSE, resp'.down) ]_vars

C19_Witness ==
    /\ backend = "disk"
    /\ IsInvalidate(req)
    /\ req.path = "/a"
    /\ resp.kind = "response"
    /\ DiskIsObjectInCache(fs, "/a/b")
    /\ stored["/a/b"].ok
    /\ Len(fs["/a/b"].data) > 0

====
